---- MODULE Spec2Model ----
\* Bronze / Silver / Gold flat-file pipeline (src/src/bronze, src/src/silver,
\* src/src/gold, src/src/utils): every public layer call is one action; the
\* three store directories are the maps bronze, silver and gold from file
\* stem to CSV file content.
EXTENDS Integers, Sequences, FiniteSets, TLC

VARIABLES
  bronze,   \* files of the Bronze directory (data/raw)
  silver,   \* files of the Silver directory (data/processed)
  gold,     \* files of the Gold directory (data/aggregated)
  clock,    \* reading of the UTC clock at the next call
  held,     \* the table the caller holds and passes to the next call
  last,     \* the last call: arguments, result, stores before it
  written   \* history: per layer and file stem, the table the latest call
            \* that wrote the file returned, and how many calls wrote it

vars == <<bronze, silver, gold, clock, held, last, written>>

\* ---------------------------------------------------------------- bounds

\* Number of writing layer calls in one run of the pipeline specification.
MaxCalls == 2

\* Largest integer a cell of the model holds (range of the CSV number parser).
MaxNum == 40

\* ----------------------------------------------------------------- cells

\* A cell is a null (NaN/None), an integer, a float with an integral value
\* (n.0) or a string.
Null == [null |-> TRUE]
IntV(n) == [int |-> n]
FltV(n) == [flt |-> n]
StrV(s) == [str |-> s]

IsNull(v) == "null" \in DOMAIN v
IsInt(v) == "int" \in DOMAIN v
IsFlt(v) == "flt" \in DOMAIN v
IsStr(v) == "str" \in DOMAIN v
IsNum(v) == IsInt(v) \/ IsFlt(v)
NumOf(v) == IF IsInt(v) THEN v.int ELSE v.flt

\* datetime.now(timezone.utc).isoformat() at clock reading t: a string.
isoformat(t) == StrV("T" \o ToString(t))

\* ---------------------------------------------------------------- tables

\* A DataFrame: the ordered column labels and the rows in index order.
Table(cols, rows) == [cols |-> cols, rows |-> rows]
NoTable == [none |-> TRUE]

\* An optional argument: omitted (Python None), or given with a value.
None == [given |-> FALSE]
Given(x) == [given |-> TRUE, val |-> x]
IsTable(T) == "cols" \in DOMAIN T

Range(s) == {s[i] : i \in 1..Len(s)}
ColSet(T) == Range(T.cols)
HasCol(T, c) == c \in ColSet(T)
ColIdx(T, c) == CHOOSE i \in 1..Len(T.cols) :
                  /\ T.cols[i] = c
                  /\ \A j \in 1..(i - 1) : T.cols[j] # c
NRows(T) == Len(T.rows)
Column(T, c) == [r \in 1..NRows(T) |-> T.rows[r][ColIdx(T, c)]]

RECURSIVE SelectSeq2(_, _)
\* The subsequence of the positions of s (as a sequence of indexes) in keep.
SelectSeq2(s, keep) ==
  IF s = <<>> THEN <<>>
  ELSE LET n == Len(s)
           front == SelectSeq2(SubSeq(s, 1, n - 1), keep)
       IN IF n \in keep THEN Append(front, s[n]) ELSE front

\* df[c] = values (one cell per row): replaces every column labelled c in
\* place, or appends a new last column when no column has that label.
SetColumn(T, c, vals) ==
  IF HasCol(T, c)
  THEN Table(T.cols,
             [r \in 1..NRows(T) |->
                [j \in 1..Len(T.cols) |->
                   IF T.cols[j] = c THEN vals[r] ELSE T.rows[r][j]]])
  ELSE Table(Append(T.cols, c),
             [r \in 1..NRows(T) |-> Append(T.rows[r], vals[r])])

\* df[c] = scalar
SetScalar(T, c, v) == SetColumn(T, c, [r \in 1..NRows(T) |-> v])

\* df.drop(columns=names): the columns whose label is in names are removed.
DropColumns(T, names) ==
  LET keep == {j \in 1..Len(T.cols) : T.cols[j] \notin names}
  IN Table(SelectSeq2(T.cols, keep),
           [r \in 1..NRows(T) |-> SelectSeq2(T.rows[r], keep)])

RECURSIVE ProjIdx(_, _)
\* Column positions selected by df[names]: for each name in order, every
\* column with that label.
ProjIdx(cols, names) ==
  IF names = <<>> THEN <<>>
  ELSE LET hits == SelectSeq2([j \in 1..Len(cols) |-> j],
                              {j \in 1..Len(cols) : cols[j] = Head(names)})
       IN hits \o ProjIdx(cols, Tail(names))

\* df[names] for names all present in df.
Project(T, names) ==
  LET idx == ProjIdx(T.cols, names)
  IN Table([k \in 1..Len(idx) |-> T.cols[idx[k]]],
           [r \in 1..NRows(T) |-> [k \in 1..Len(idx) |-> T.rows[r][idx[k]]]])

\* A deduplication that compares a row with the row before it only.
drop_duplicates_adjacent(T) ==
  IF T.cols = <<>> THEN T
  ELSE Table(T.cols,
             SelectSeq2(T.rows,
                        {r \in 1..NRows(T) : r = 1 \/ T.rows[r - 1] # T.rows[r]}))

\* df.drop_duplicates(): a row is dropped when an earlier row is equal in
\* every column (nulls compare equal); the kept rows keep their order.
\* A frame without columns (df.empty) is returned as it is.
drop_duplicates(T) ==
  IF T.cols = <<>> THEN T
  ELSE Table(T.cols,
             SelectSeq2(T.rows,
                        {r \in 1..NRows(T) :
                           \A q \in 1..(r - 1) : T.rows[q] # T.rows[r]}))

\* df.dropna(subset=cols): rows with a null in a column of the set go.
dropna(T, cols) ==
  Table(T.cols,
        SelectSeq2(T.rows,
                   {r \in 1..NRows(T) :
                      \A j \in 1..Len(T.cols) :
                        T.cols[j] \in cols => ~IsNull(T.rows[r][j])}))

\* ------------------------------------------------------------------- CSV

NumRange == 0..MaxNum
NumText == [n \in NumRange |-> ToString(n)]
FltText == [n \in NumRange |-> ToString(n) \o ".0"]

\* Strings the CSV reader takes for a missing value (pandas default
\* na_values, the ones the model's cells can hold).
NaTexts == {"", "NA", "NaN", "nan", "null", "NULL", "None", "N/A", "n/a"}

\* DataFrame.to_csv: the text of one field.
FormatCell(v) ==
  IF IsNull(v) THEN ""
  ELSE IF IsInt(v) THEN NumText[v.int]
  ELSE IF IsFlt(v) THEN FltText[v.flt]
  ELSE v.str

IsIntText(t) == \E n \in NumRange : NumText[n] = t
IsFltText(t) == \E n \in NumRange : FltText[n] = t
IntOfText(t) == CHOOSE n \in NumRange : NumText[n] = t
NumOfText(t) == IF IsIntText(t) THEN IntOfText(t)
                ELSE CHOOSE n \in NumRange : FltText[n] = t

\* pandas.read_csv type inference for one column of field texts: all
\* non-missing fields integers -> int64 (float64 when a field is missing),
\* all numeric -> float64, otherwise the texts stay strings.
ParseColumn(texts) ==
  LET present == {texts[r] : r \in {q \in 1..Len(texts) : texts[q] \notin NaTexts}}
      missing == \E r \in 1..Len(texts) : texts[r] \in NaTexts
      allInt == \A t \in present : IsIntText(t)
      allNum == \A t \in present : IsIntText(t) \/ IsFltText(t)
  IN [r \in 1..Len(texts) |->
        IF texts[r] \in NaTexts THEN Null
        ELSE IF allInt /\ ~missing THEN IntV(IntOfText(texts[r]))
        ELSE IF allNum THEN FltV(NumOfText(texts[r]))
        ELSE StrV(texts[r])]

\* read_csv header: a repeated label gets the suffix .1, .2, ...
MangleDupes(header) ==
  [j \in 1..Len(header) |->
     LET k == Cardinality({i \in 1..(j - 1) : header[i] = header[j]})
     IN IF k = 0 THEN header[j] ELSE header[j] \o "." \o ToString(k)]

\* df.to_csv(file_path, index=False): header row and one line per row.
to_csv(T) ==
  [header |-> T.cols,
   lines |-> [r \in 1..NRows(T) |->
                [j \in 1..Len(T.cols) |-> FormatCell(T.rows[r][j])]]]

\* pd.read_csv(file_path)
read_csv(f) ==
  LET n == Len(f.lines)
      w == Len(f.header)
      parsed == [j \in 1..w |-> ParseColumn([r \in 1..n |-> f.lines[r][j]])]
  IN Table(MangleDupes(f.header),
           [r \in 1..n |-> [j \in 1..w |-> parsed[j][r]]])

\* A store directory: file stem -> content of <stem>.csv.
NoFiles == [n \in {} |-> 0]

\* A save that opens an existing file of the same header for appending.
save_csv_appending(store, stem, df) ==
  [n \in (DOMAIN store) \cup {stem} |->
     IF n # stem THEN store[n]
     ELSE IF stem \in DOMAIN store /\ store[stem].header = to_csv(df).header
     THEN [header |-> store[stem].header,
           lines |-> store[stem].lines \o to_csv(df).lines]
     ELSE to_csv(df)]

\* save_csv: the destination file is created or overwritten as a whole.
save_csv(store, stem, df) ==
  [n \in (DOMAIN store) \cup {stem} |-> IF n = stem THEN to_csv(df) ELSE store[n]]

\* load_csv: FileNotFoundError when the path does not exist.
load_csv(store, stem) ==
  IF stem \in DOMAIN store
  THEN [status |-> "ok", df |-> read_csv(store[stem])]
  ELSE [status |-> "FileNotFoundError", df |-> NoTable]

\* The dtypes pandas counts as numeric (pd.api.types.is_numeric_dtype), of
\* the dtypes a column of the model can have.
NumericDTypes == {"int64", "int32", "float64", "float32"}
is_numeric_dtype(dtype) == dtype \in NumericDTypes

\* pd.api.types.is_dtype_equal(dtype, expected_type) for dtypes and
\* expected types given by their canonical names.
is_dtype_equal(dtype, expected_type) == dtype = expected_type

\* validate_schema on a table with the given column labels and dtypes
\* (label -> dtype): ValueError for a missing required column, then
\* ValueError for the first typed column that is present with another
\* dtype, unless the expected type is float64 or int64 and the column is
\* numeric; True otherwise.
validate_schema_result(cols, dtypes, required_columns, column_types) ==
  LET missing_columns == Range(required_columns) \ Range(cols)
      types == IF column_types.given THEN column_types.val ELSE <<>>
      raises(e) ==
        /\ e.col \in Range(cols)
        /\ ~is_dtype_equal(dtypes[e.col], e.type)
        /\ ~(e.type \in {"float64", "int64"} /\ is_numeric_dtype(dtypes[e.col]))
  IN IF missing_columns # {} THEN [status |-> "ValueError", value |-> FALSE]
     ELSE IF \E k \in 1..Len(types) : raises(types[k])
     THEN [status |-> "ValueError", value |-> FALSE]
     ELSE [status |-> "ok", value |-> TRUE]

\* ---------------------------------------------------------- Bronze layer

\* BronzeLayer._add_metadata
Bronze_add_metadata(df, source_system, now) ==
  SetScalar(SetScalar(df, "_ingestion_timestamp", isoformat(now)),
            "_source_system", StrV(source_system))

\* BronzeLayer.ingest_dataframe up to the save: the table that is saved and
\* returned.
ingest_dataframe_result(df, source_system, now) ==
  Bronze_add_metadata(df, source_system, now)

\* BronzeLayer.ingest_data up to the save: load_csv of the source path, then
\* the metadata.
ingest_data_result(sources, source_path, source_system, now) ==
  LET ld == load_csv(sources, source_path)
  IN IF ld.status # "ok" THEN [status |-> ld.status, out |-> NoTable]
     ELSE [status |-> "ok",
           out |-> Bronze_add_metadata(ld.df, source_system, now)]

\* ---------------------------------------------------------- Silver layer

\* The characters of the column labels that reach clean_column_names.
NameChars ==
  [id |-> <<"i", "d">>,
   value |-> <<"v", "a", "l", "u", "e">>,
   name |-> <<"n", "a", "m", "e">>,
   Quantity |-> <<"Q", "u", "a", "n", "t", "i", "t", "y">>,
   quantity |-> <<"q", "u", "a", "n", "t", "i", "t", "y">>]
    @@ (" Unit-Price" :> <<" ", "U", "n", "i", "t", "-", "P", "r", "i", "c", "e">>)
    @@ ("unit_price" :> <<"u", "n", "i", "t", "_", "p", "r", "i", "c", "e">>)
    @@ ("total_amount" :> <<"t", "o", "t", "a", "l", "_", "a", "m", "o", "u", "n", "t">>)
    @@ ("_Source_System" :> <<"_", "S", "o", "u", "r", "c", "e", "_", "S", "y", "s", "t", "e", "m">>)
    @@ ("_source_system" :> <<"_", "s", "o", "u", "r", "c", "e", "_", "s", "y", "s", "t", "e", "m">>)
    @@ ("_ingestion_timestamp" :> <<"_", "i", "n", "g", "e", "s", "t", "i", "o", "n", "_",
                                    "t", "i", "m", "e", "s", "t", "a", "m", "p">>)
    @@ ("_silver_timestamp" :> <<"_", "s", "i", "l", "v", "e", "r", "_",
                                 "t", "i", "m", "e", "s", "t", "a", "m", "p">>)
    @@ ("_gold_timestamp" :> <<"_", "g", "o", "l", "d", "_",
                               "t", "i", "m", "e", "s", "t", "a", "m", "p">>)
    @@ ("Column Name" :> <<"C", "o", "l", "u", "m", "n", " ", "N", "a", "m", "e">>)
    @@ ("column_name" :> <<"c", "o", "l", "u", "m", "n", "_", "n", "a", "m", "e">>)
    @@ ("Another-Column" :> <<"A", "n", "o", "t", "h", "e", "r", "-",
                              "C", "o", "l", "u", "m", "n">>)
    @@ ("another_column" :> <<"a", "n", "o", "t", "h", "e", "r", "_",
                              "c", "o", "l", "u", "m", "n">>)
    @@ ("\tKey - " :> <<"\t", "K", "e", "y", " ", "-", " ">>)
    @@ ("key__" :> <<"k", "e", "y", "_", "_">>)

UpperChars == <<"A", "B", "C", "D", "E", "F", "G", "H", "I", "J", "K", "L", "M",
                "N", "O", "P", "Q", "R", "S", "T", "U", "V", "W", "X", "Y", "Z">>
LowerChars == <<"a", "b", "c", "d", "e", "f", "g", "h", "i", "j", "k", "l", "m",
                "n", "o", "p", "q", "r", "s", "t", "u", "v", "w", "x", "y", "z">>

\* str.lower, one character
lower(ch) ==
  IF \E k \in 1..Len(UpperChars) : UpperChars[k] = ch
  THEN LowerChars[CHOOSE k \in 1..Len(UpperChars) : UpperChars[k] = ch]
  ELSE ch

RECURSIVE lstrip(_, _)
lstrip(chars, drop) ==
  IF chars # <<>> /\ Head(chars) \in drop THEN lstrip(Tail(chars), drop) ELSE chars

RECURSIVE rstrip(_, _)
rstrip(chars, drop) ==
  IF chars # <<>> /\ chars[Len(chars)] \in drop
  THEN rstrip(SubSeq(chars, 1, Len(chars) - 1), drop)
  ELSE chars

\* str.strip(): leading and trailing characters of the set removed
strip(chars, drop) == rstrip(lstrip(chars, drop), drop)

\* str.replace(old, new) for single characters
replace(chars, old, new) ==
  [k \in 1..Len(chars) |-> IF chars[k] = old THEN new ELSE chars[k]]

RECURSIVE JoinChars(_)
JoinChars(chars) ==
  IF chars = <<>> THEN "" ELSE Head(chars) \o JoinChars(Tail(chars))

Whitespace == {" ", "\t", "\n", "\r", "\f"}

\* A cleaning that replaces spaces and hyphens before it trims.
CleanName_untrimmed(col) ==
  JoinChars(strip(replace(replace([k \in 1..Len(NameChars[col]) |->
                                      lower(NameChars[col][k])],
                                  " ", "_"),
                          "-", "_"),
                  Whitespace))

\* col.lower().strip().replace(" ", "_").replace("-", "_")
CleanName(col) ==
  JoinChars(replace(replace(strip([k \in 1..Len(NameChars[col]) |->
                                      lower(NameChars[col][k])],
                                  Whitespace),
                            " ", "_"),
                    "-", "_"))

\* SilverLayer.clean_column_names
clean_column_names(df) ==
  Table([j \in 1..Len(df.cols) |-> CleanName(df.cols[j])], df.rows)

\* Product of two cells as pandas multiplies two numeric columns: NaN when
\* either is missing, a float as soon as either is a float.
Mul(a, b) ==
  IF IsNull(a) \/ IsNull(b) THEN Null
  ELSE IF IsInt(a) /\ IsInt(b) THEN IntV(a.int * b.int)
  ELSE FltV(NumOf(a) * NumOf(b))

IsNumericCol(T, c) == \A r \in 1..NRows(T) : LET v == Column(T, c)[r]
                                             IN IsNull(v) \/ IsNum(v)

\* df[a] * df[b] for two numeric columns.
MulColumns(T, a, b) == [r \in 1..NRows(T) |-> Mul(Column(T, a)[r], Column(T, b)[r])]

\* The caller's transformation functions (Callable[[DataFrame], DataFrame]):
\* clean_column_names of the layer, calculate_total of the example pipeline,
\* double_values of the tests. A missing column is a KeyError.
ApplyTransform(fn, df) ==
  IF fn = "clean_column_names"
  THEN [status |-> "ok", df |-> clean_column_names(df)]
  ELSE IF fn = "calculate_total"
  THEN IF HasCol(df, "quantity") /\ HasCol(df, "unit_price")
       THEN [status |-> "ok",
             df |-> SetColumn(df, "total_amount",
                              MulColumns(df, "quantity", "unit_price"))]
       ELSE [status |-> "KeyError", df |-> NoTable]
  ELSE \* double_values
       IF HasCol(df, "value")
       THEN [status |-> "ok",
             df |-> SetColumn(df, "value",
                              [r \in 1..NRows(df) |->
                                 Mul(Column(df, "value")[r], IntV(2))])]
       ELSE [status |-> "KeyError", df |-> NoTable]

\* A loop that hands the stripped input to every function instead of the
\* table the previous function returned.
ApplyTransformations_stale(fns, df, seen) ==
  IF fns = <<>> THEN [status |-> "ok", df |-> df, seen |-> seen]
  ELSE LET rs == [i \in 1..Len(fns) |-> ApplyTransform(fns[i], df)]
           bad == {i \in 1..Len(fns) : rs[i].status # "ok"}
           stop == CHOOSE i \in bad : \A k \in bad : i <= k
       IN IF bad # {}
          THEN [status |-> rs[stop].status, df |-> NoTable,
                seen |-> seen \o [i \in 1..stop |-> df]]
          ELSE [status |-> "ok", df |-> rs[Len(fns)].df,
                seen |-> seen \o [i \in 1..Len(fns) |-> df]]

RECURSIVE ApplyTransformations(_, _, _)
\* for transform_fn in transformations: result = transform_fn(result)
\* seen: the tables handed to the functions so far, in call order.
ApplyTransformations(fns, df, seen) ==
  IF fns = <<>> THEN [status |-> "ok", df |-> df, seen |-> seen]
  ELSE LET r == ApplyTransform(Head(fns), df)
       IN IF r.status # "ok"
          THEN [status |-> r.status, df |-> NoTable, seen |-> Append(seen, df)]
          ELSE ApplyTransformations(Tail(fns), r.df, Append(seen, df))

\* SilverLayer._add_metadata
Silver_add_metadata(df, now) == SetScalar(df, "_silver_timestamp", isoformat(now))

\* A strip list that misses one of the two Bronze labels.
bronze_meta_cols_partial == {"_ingestion_timestamp"}

bronze_meta_cols == {"_ingestion_timestamp", "_source_system"}

\* Python truth value of an Optional[list] argument.
Truthy(arg) == arg.given /\ arg.val # <<>>

\* SilverLayer.transform up to the save: status, the table that is saved and
\* returned, and the tables the transformation functions received.
transform_result(df, transformations, deduplicate, drop_nulls, null_columns, now) ==
  LET stripped == DropColumns(df, {c \in bronze_meta_cols : HasCol(df, c)})
      applied == IF Truthy(transformations)
                 THEN ApplyTransformations(transformations.val, stripped, <<>>)
                 ELSE [status |-> "ok", df |-> stripped, seen |-> <<>>]
      deduped == IF deduplicate THEN drop_duplicates(applied.df) ELSE applied.df
      nullsOk == ~(drop_nulls /\ Truthy(null_columns))
                   \/ Range(null_columns.val) \subseteq ColSet(deduped)
      dropped == IF drop_nulls
                 THEN IF Truthy(null_columns)
                      THEN dropna(deduped, Range(null_columns.val))
                      ELSE dropna(deduped, ColSet(deduped))
                 ELSE deduped
  IN IF applied.status # "ok"
     THEN [status |-> applied.status, out |-> NoTable, seen |-> applied.seen]
     ELSE IF ~nullsOk
     THEN [status |-> "KeyError", out |-> NoTable, seen |-> applied.seen]
     ELSE [status |-> "ok", out |-> Silver_add_metadata(dropped, now),
           seen |-> applied.seen]

\* ------------------------------------------------------------ Gold layer

\* GoldLayer._add_metadata
Gold_add_metadata(df, now) == SetScalar(df, "_gold_timestamp", isoformat(now))

silver_meta_cols == {"_silver_timestamp"}

\* Lexicographic order of the string cells that can be a group key.
StrOrder == <<"", "1", "2", "a", "b", "crm", "pos", "unknown", "x", "y">>
StrRank(s) == CHOOSE k \in 1..Len(StrOrder) : StrOrder[k] = s

\* Sort order of two non-null cells of one column.
CellLess(a, b) ==
  IF IsNum(a) /\ IsNum(b) THEN NumOf(a) < NumOf(b)
  ELSE StrRank(a.str) < StrRank(b.str)

\* Equality of two cells as keys: numbers by value, nulls equal.
KeyEq(a, b) == IF IsNum(a) /\ IsNum(b) THEN NumOf(a) = NumOf(b) ELSE a = b

\* Lexicographic order of two key tuples of the same length.
KeyLess(k1, k2) ==
  \E i \in 1..Len(k1) :
    /\ CellLess(k1[i], k2[i])
    /\ \A j \in 1..(i - 1) : k1[j] = k2[j]

RECURSIVE SortKeys(_)
\* The key tuples of a set in ascending order (groupby sort=True).
SortKeys(S) ==
  IF S = {} THEN <<>>
  ELSE LET m == CHOOSE k \in S : \A o \in S \ {k} : KeyLess(k, o)
       IN <<m>> \o SortKeys(S \ {m})

RECURSIVE SumNums(_)
SumNums(s) == IF s = <<>> THEN 0 ELSE NumOf(Head(s)) + SumNums(Tail(s))

\* dtype of a numeric column: int64 only when every cell is an integer.
IsIntCol(T, c) == \A r \in 1..NRows(T) : IsInt(Column(T, c)[r])

\* One aggregated cell: the aggregation fn over the cells of column c in
\* the rows of the group (sum and count skip nulls).
AggCell(T, c, fn, groupRows) ==
  LET cells == SelectSeq([k \in 1..Len(groupRows) |-> Column(T, c)[groupRows[k]]],
                         LAMBDA v : ~IsNull(v))
  IN IF fn = "count" THEN IntV(Len(cells))
     ELSE IF IsIntCol(T, c) THEN IntV(SumNums(cells))
     ELSE FltV(SumNums(cells))

AggNames == {"sum", "count"}

RECURSIVE AggPairs(_)
\* The (column, aggregation) pairs of the aggregations dict in order.
AggPairs(aggs) ==
  IF aggs = <<>> THEN <<>>
  ELSE [k \in 1..Len(Head(aggs).fns) |->
          [col |-> Head(aggs).col, fn |-> Head(aggs).fns[k]]]
       \o AggPairs(Tail(aggs))

\* A flattening that keeps the first part of a column name only.
FlattenName_first(c, fn) == c

\* "_".join(col).strip("_") if col[1] else col[0], for the pair (c, fn).
FlattenName(c, fn) ==
  IF fn = "" THEN c
  ELSE JoinChars(strip(NameChars[c] \o <<"_">> \o <<fn>>, {"_"}))

\* GoldLayer.aggregate up to the save. aggregations is the dict in
\* insertion order: col, the aggregation names fns, and aslist telling
\* whether the dict value is a list (a single name otherwise).
aggregate_result(df, group_by, aggregations, now) ==
  LET result == DropColumns(df, {c \in silver_meta_cols : HasCol(df, c)})
      pairs == AggPairs(aggregations)
      multi == \E k \in 1..Len(aggregations) : aggregations[k].aslist
      keyIdx == [k \in 1..Len(group_by) |-> ColIdx(result, group_by[k])]
      keyOf(r) == [k \in 1..Len(group_by) |-> result.rows[r][keyIdx[k]]]
      live == {r \in 1..NRows(result) :
                 \A k \in 1..Len(group_by) : ~IsNull(keyOf(r)[k])}
      keys == SortKeys({keyOf(r) : r \in live})
      rowsOf(key) == SelectSeq2([r \in 1..NRows(result) |-> r],
                                {r \in live : keyOf(r) = key})
      outCols == group_by \o
                 [k \in 1..Len(pairs) |->
                    IF multi THEN FlattenName(pairs[k].col, pairs[k].fn)
                    ELSE pairs[k].col]
      outRows == [g \in 1..Len(keys) |->
                    keys[g] \o
                    [k \in 1..Len(pairs) |->
                       AggCell(result, pairs[k].col, pairs[k].fn, rowsOf(keys[g]))]]
  IN IF group_by = <<>> THEN [status |-> "ValueError", out |-> NoTable]
     ELSE IF ~(Range(group_by) \subseteq ColSet(result))
     THEN [status |-> "KeyError", out |-> NoTable]
     ELSE IF \E k \in 1..Len(pairs) : ~HasCol(result, pairs[k].col)
     THEN [status |-> "KeyError", out |-> NoTable]
     ELSE IF \E k \in 1..Len(pairs) : pairs[k].fn \notin AggNames
     THEN [status |-> "AttributeError", out |-> NoTable]
     ELSE IF \/ aggregations = <<>>
             \/ \E k \in 1..Len(pairs) :
                  \/ pairs[k].col \in Range(group_by)
                  \/ pairs[k].fn = "sum" /\ ~IsNumericCol(result, pairs[k].col)
     THEN [status |-> "unmodelled", out |-> NoTable]
     ELSE [status |-> "ok",
           out |-> Gold_add_metadata(Table(outCols, outRows), now)]

\* [key_column] + [c for c in attributes if c != key_column], then the
\* labels that are columns of df.
PresentOnly(names, df) == SelectSeq(names, LAMBDA c : HasCol(df, c))

\* A create_dimension that projects without removing repeated rows.
create_dimension_repeating(df, key_column, attributes, now) ==
  Gold_add_metadata(
    Project(df, SelectSeq(<<key_column>> \o
                            SelectSeq(attributes, LAMBDA c : c # key_column),
                          LAMBDA c : HasCol(df, c))),
    now)

\* GoldLayer.create_dimension up to the save.
create_dimension_result(df, key_column, attributes, now) ==
  LET columns == PresentOnly(<<key_column>> \o
                               SelectSeq(attributes, LAMBDA c : c # key_column),
                             df)
  IN Gold_add_metadata(drop_duplicates(Project(df, columns)), now)

\* A create_fact that projects the table it was given, not the stripped one.
create_fact_unstripped(df, dimension_keys, measures, now) ==
  Gold_add_metadata(Project(df, PresentOnly(dimension_keys \o measures, df)), now)

\* A create_fact that removes repeated rows as create_dimension does.
create_fact_deduplicated(df, dimension_keys, measures, now) ==
  LET result == DropColumns(df, {c \in silver_meta_cols : HasCol(df, c)})
      columns == SelectSeq(dimension_keys \o measures, LAMBDA c : HasCol(result, c))
  IN Gold_add_metadata(drop_duplicates(Project(result, columns)), now)

\* GoldLayer.create_fact up to the save.
create_fact_result(df, dimension_keys, measures, now) ==
  LET result == DropColumns(df, {c \in silver_meta_cols : HasCol(df, c)})
      columns == PresentOnly(dimension_keys \o measures, result)
  IN Gold_add_metadata(Project(result, columns), now)

RECURSIVE Flatten(_)
Flatten(ss) == IF ss = <<>> THEN <<>> ELSE Head(ss) \o Flatten(Tail(ss))

\* pd.merge(left, right, on=on, how=how) for how "inner" and "left": the
\* key columns once where the left table has them, a label that both
\* tables have outside the keys with the suffixes _x and _y, the rows in
\* the order of the left rows and, for one left row, of the right rows.
merge(left, right, on, how) ==
  LET keys == Range(on)
      shared == (ColSet(left) \cap ColSet(right)) \ keys
      rightKeep == SelectSeq2([j \in 1..Len(right.cols) |-> j],
                              {j \in 1..Len(right.cols) : right.cols[j] \notin keys})
      cols == [j \in 1..Len(left.cols) |->
                 IF left.cols[j] \in shared THEN left.cols[j] \o "_x"
                 ELSE left.cols[j]]
              \o [k \in 1..Len(rightKeep) |->
                    IF right.cols[rightKeep[k]] \in shared
                    THEN right.cols[rightKeep[k]] \o "_y"
                    ELSE right.cols[rightKeep[k]]]
      match(i, j) == \A k \in 1..Len(on) :
                       KeyEq(left.rows[i][ColIdx(left, on[k])],
                             right.rows[j][ColIdx(right, on[k])])
      matches(i) == SelectSeq2([j \in 1..NRows(right) |-> j],
                               {j \in 1..NRows(right) : match(i, j)})
      unmatched == \E i \in 1..NRows(left) : matches(i) = <<>>
      \* a right column that gets a missing value turns float64
      rcell(j, k) == LET v == right.rows[j][rightKeep[k]]
                     IN IF /\ how = "left" /\ unmatched /\ IsInt(v)
                           /\ IsIntCol(right, right.cols[rightKeep[k]])
                        THEN FltV(v.int) ELSE v
      rowsFor(i) ==
        IF matches(i) = <<>>
        THEN IF how = "left"
             THEN << left.rows[i] \o [k \in 1..Len(rightKeep) |-> Null] >>
             ELSE <<>>
        ELSE [m \in 1..Len(matches(i)) |->
                left.rows[i] \o
                [k \in 1..Len(rightKeep) |-> rcell(matches(i)[m], k)]]
  IN Table(cols, Flatten([i \in 1..NRows(left) |-> rowsFor(i)]))

\* GoldLayer.join_tables up to the save; on is the list of key labels (a
\* single label is the list of one).
join_tables_result(left_df, right_df, on, how, now) ==
  IF ~(Range(on) \subseteq ColSet(left_df) /\ Range(on) \subseteq ColSet(right_df))
  THEN [status |-> "KeyError", out |-> NoTable]
  ELSE IF how \notin {"inner", "left"} \/ on = <<>>
  THEN [status |-> "unmodelled", out |-> NoTable]
  ELSE [status |-> "ok",
        out |-> Gold_add_metadata(merge(left_df, right_df, on, how), now)]

\* The caller's metric functions (Callable[[DataFrame], Series]): revenue
\* of the tests (quantity times price), a metric computed from the revenue
\* column, and the number of columns of the table the function receives.
ApplyMetric(fn, df) ==
  IF fn = "revenue"
  THEN IF HasCol(df, "quantity") /\ HasCol(df, "unit_price")
       THEN [status |-> "ok", col |-> MulColumns(df, "quantity", "unit_price")]
       ELSE [status |-> "KeyError", col |-> <<>>]
  ELSE IF fn = "double_revenue"
  THEN IF HasCol(df, "revenue")
       THEN [status |-> "ok",
             col |-> [r \in 1..NRows(df) |-> Mul(Column(df, "revenue")[r], IntV(2))]]
       ELSE [status |-> "KeyError", col |-> <<>>]
  ELSE \* n_columns
       [status |-> "ok", col |-> [r \in 1..NRows(df) |-> IntV(Len(df.cols))]]

\* A loop that evaluates every metric function on the input table and sets
\* the columns afterwards.
ApplyMetrics_stale(metrics, df, seen) ==
  LET rs == [i \in 1..Len(metrics) |-> ApplyMetric(metrics[i].fn, df)]
      bad == {i \in 1..Len(metrics) : rs[i].status # "ok"}
      stop == CHOOSE i \in bad : \A k \in bad : i <= k
      names == {metrics[i].name : i \in 1..Len(metrics)}
      final == [n \in names |->
                 CHOOSE i \in 1..Len(metrics) :
                   /\ metrics[i].name = n
                   /\ \A k \in 1..Len(metrics) : metrics[k].name = n => k <= i]
      new == SelectSeq([i \in 1..Len(metrics) |-> metrics[i].name],
                       LAMBDA n : ~HasCol(df, n))
      cols == df.cols \o new
  IN IF bad # {}
     THEN [status |-> rs[stop].status, df |-> NoTable,
           seen |-> seen \o [i \in 1..stop |-> df]]
     ELSE [status |-> "ok",
           df |-> Table(cols,
                        [r \in 1..NRows(df) |->
                           [j \in 1..Len(cols) |->
                              IF cols[j] \in names THEN rs[final[cols[j]]].col[r]
                              ELSE df.rows[r][j]]]),
           seen |-> seen \o [i \in 1..Len(metrics) |-> df]]

RECURSIVE ApplyMetrics(_, _, _)
\* for metric_name, calc_fn in metrics.items():
\*     result[metric_name] = calc_fn(result)
ApplyMetrics(metrics, df, seen) ==
  IF metrics = <<>> THEN [status |-> "ok", df |-> df, seen |-> seen]
  ELSE LET r == ApplyMetric(Head(metrics).fn, df)
       IN IF r.status # "ok"
          THEN [status |-> r.status, df |-> NoTable, seen |-> Append(seen, df)]
          ELSE ApplyMetrics(Tail(metrics),
                            SetColumn(df, Head(metrics).name, r.col),
                            Append(seen, df))

\* GoldLayer.calculate_metrics up to the save.
calculate_metrics_result(df, metrics, now) ==
  LET r == ApplyMetrics(metrics, df, <<>>)
  IN IF r.status # "ok"
     THEN [status |-> r.status, out |-> NoTable, seen |-> r.seen]
     ELSE [status |-> "ok", out |-> Gold_add_metadata(r.df, now), seen |-> r.seen]

\* ------------------------------------------------------- the layer calls

\* Three layers constructed on one and the same directory.
StoreOf_shared(layer) ==
  [n \in (DOMAIN bronze) \cup (DOMAIN silver) \cup (DOMAIN gold) |->
     IF n \in DOMAIN bronze THEN bronze[n]
     ELSE IF n \in DOMAIN silver THEN silver[n] ELSE gold[n]]

\* The store directory of a layer (data_path of the three constructors:
\* three different directories).
StoreOf(layer) ==
  IF layer = "bronze" THEN bronze ELSE IF layer = "silver" THEN silver ELSE gold

\* A call that opens <stem>.csv for writing before it computes: a call that
\* raises leaves a truncated file.
Commit_truncating(store, stem, res) ==
  IF res.status = "ok" THEN save_csv(store, stem, res.out)
  ELSE [n \in (DOMAIN store) \cup {stem} |->
          IF n = stem THEN [header |-> <<>>, lines |-> <<>>] ELSE store[n]]

\* What a computing call leaves in its store directory: the save is the
\* last statement before the return, so a call that raised has saved
\* nothing and a call that returns has overwritten <stem>.csv.
Commit(store, stem, res) ==
  IF res.status = "ok" THEN save_csv(store, stem, res.out) ELSE store

\* A DataFrame object as a call works on it: the caller's own object, or
\* a new one that shares nothing with it.
Ref(df) == [alias |-> TRUE, table |-> df]
NewFrame(df) == [alias |-> FALSE, table |-> df]

\* A copy that hands back the object it was asked to copy.
copy_alias(df) == Ref(df)

\* df.copy()
copy(df) == NewFrame(df)

\* The object on which a call runs its in-place steps (column
\* assignments, the caller's functions): ingest_dataframe, transform,
\* aggregate, calculate_metrics and clean_column_names copy the table they
\* are given; create_dimension (df[columns]), create_fact (df.drop) and
\* join_tables (pd.merge) start from a frame pandas built anew.
Working(op, df) ==
  IF op \in {"ingest_dataframe", "transform", "aggregate", "calculate_metrics",
             "clean_column_names"}
  THEN copy(df)
  ELSE NewFrame(df)

\* The caller's table after a call: what the in-place steps made of it
\* when they ran on the caller's object, the table as it was otherwise.
CallerTableAfter(op, df, res) ==
  IF Working(op, df).alias /\ res.status = "ok" THEN res.out ELSE df

\* A default argument: the value given, or the default when omitted.
ArgOr(arg, default) == IF arg.given THEN arg.val ELSE default

\* The record of a call: what was asked, what it returned or raised, the
\* tables the caller's functions received, and the stores before the call.
Call(op, layer, file, args, df, res) ==
  [op |-> op, layer |-> layer, file |-> file, args |-> args, df |-> df,
   status |-> res.status, out |-> res.out, seen |-> res.seen,
   df_after |-> CallerTableAfter(op, df, res),
   listing |-> <<>>,
   before |-> [bronze |-> bronze, silver |-> silver, gold |-> gold]]

\* The history of a layer after a call that returned df wrote the file.
Record(hist, file, df) ==
  [n \in (DOMAIN hist) \cup {file} |->
     IF n = file
     THEN [df |-> df,
           writes |-> IF file \in DOMAIN hist THEN hist[file].writes + 1 ELSE 1]
     ELSE hist[n]]

\* A writing call of a layer: the store of that layer takes the commit, the
\* other two directories are untouched, the clock moves on, and the caller
\* holds the returned table (or, after an exception, what it held before).
Write(op, layer, file, args, df, res) ==
  /\ res.status # "unmodelled"
  /\ bronze' = IF layer = "bronze" THEN Commit(bronze, file, res) ELSE bronze
  /\ silver' = IF layer = "silver" THEN Commit(silver, file, res) ELSE silver
  /\ gold' = IF layer = "gold" THEN Commit(gold, file, res) ELSE gold
  /\ clock' = clock + 1
  /\ held' = IF res.status = "ok" THEN res.out ELSE held
  /\ last' = Call(op, layer, file, args, df, res)
  /\ written' = IF res.status = "ok"
                THEN [written EXCEPT ![layer] = Record(@, file, res.out)]
                ELSE written

\* The files outside the three store directories that ingest_data can be
\* pointed at.
SourceFiles ==
  ("sales.csv" :> [header |-> <<"quantity", "unit_price">>,
                   lines |-> << <<"2", "3">>, <<"", "4">> >>])
  @@ ("people.csv" :> [header |-> <<"id", "name">>,
                       lines |-> << <<"1", "x">>, <<"2", "NA">> >>])

\* BronzeLayer.ingest_data
ingest_data(source_path, table_name, source_system) ==
  LET r == ingest_data_result(SourceFiles, source_path,
                              ArgOr(source_system, "unknown"), clock)
  IN Write("ingest_data", "bronze", table_name,
           [source_path |-> source_path, source_system |-> source_system],
           NoTable, [status |-> r.status, out |-> r.out, seen |-> <<>>])

\* BronzeLayer.ingest_dataframe
ingest_dataframe(df, table_name, source_system) ==
  LET out == ingest_dataframe_result(df, ArgOr(source_system, "unknown"), clock)
  IN Write("ingest_dataframe", "bronze", table_name,
           [source_system |-> source_system],
           df, [status |-> "ok", out |-> out, seen |-> <<>>])

\* SilverLayer.transform
transform(df, table_name, transformations, deduplicate, drop_nulls, null_columns) ==
  Write("transform", "silver", table_name,
        [transformations |-> transformations, deduplicate |-> deduplicate,
         drop_nulls |-> drop_nulls, null_columns |-> null_columns],
        df,
        transform_result(df, transformations, deduplicate, drop_nulls,
                         null_columns, clock))

\* GoldLayer.aggregate
aggregate(df, table_name, group_by, aggregations) ==
  LET r == aggregate_result(df, group_by, aggregations, clock)
  IN Write("aggregate", "gold", table_name,
           [group_by |-> group_by, aggregations |-> aggregations],
           df, [status |-> r.status, out |-> r.out, seen |-> <<>>])

\* GoldLayer.create_dimension
create_dimension(df, table_name, key_column, attributes) ==
  Write("create_dimension", "gold", "dim_" \o table_name,
        [table_name |-> table_name, key_column |-> key_column,
         attributes |-> attributes],
        df,
        [status |-> "ok",
         out |-> create_dimension_result(df, key_column, attributes, clock),
         seen |-> <<>>])

\* GoldLayer.create_fact
create_fact(df, table_name, dimension_keys, measures) ==
  Write("create_fact", "gold", "fact_" \o table_name,
        [table_name |-> table_name, dimension_keys |-> dimension_keys,
         measures |-> measures],
        df,
        [status |-> "ok",
         out |-> create_fact_result(df, dimension_keys, measures, clock),
         seen |-> <<>>])

\* GoldLayer.join_tables
join_tables(left_df, right_df, table_name, on, how) ==
  LET r == join_tables_result(left_df, right_df, on, how, clock)
  IN Write("join_tables", "gold", table_name,
           [on |-> on, how |-> how, right_df |-> right_df],
           left_df, [status |-> r.status, out |-> r.out, seen |-> <<>>])

\* GoldLayer.calculate_metrics
calculate_metrics(df, table_name, metrics) ==
  Write("calculate_metrics", "gold", table_name, [metrics |-> metrics],
        df, calculate_metrics_result(df, metrics, clock))

\* read_table of the three layers: load_csv of <data_path>/<table_name>.csv
read_table(layer, table_name) ==
  LET r == load_csv(StoreOf(layer), table_name)
  IN /\ last' = Call("read_table", layer, table_name, <<>>, NoTable,
                     [status |-> r.status, out |-> r.df, seen |-> <<>>])
     /\ UNCHANGED <<bronze, silver, gold, clock, held, written>>

\* The orders in which a directory listing can give a set of files.
Listings(S) == {f \in [1..Cardinality(S) -> S] : Range(f) = S}

\* list_tables of the three layers: [f.stem for f in data_path.glob("*.csv")]
list_tables(layer) ==
  \E order \in Listings(DOMAIN StoreOf(layer)) :
    /\ last' = [Call("list_tables", layer, "", <<>>, NoTable,
                     [status |-> "ok", out |-> NoTable, seen |-> <<>>])
                 EXCEPT !.listing = order]
    /\ UNCHANGED <<bronze, silver, gold, clock, held, written>>

\* SilverLayer.clean_column_names called by the caller itself: the renamed
\* table is returned, nothing is written.
clean_column_names_call(df) ==
  /\ last' = Call("clean_column_names", "silver", "", <<>>, df,
                  [status |-> "ok", out |-> clean_column_names(df), seen |-> <<>>])
  /\ clock' = clock + 1
  /\ UNCHANGED <<bronze, silver, gold, held, written>>

\* validate_schema of the utilities, on a table whose columns have the
\* given dtypes: nothing is written, the caller gets True or a ValueError,
\* and the call has taken its time.
validate_schema(df, dtypes, required_columns, column_types) ==
  LET r == validate_schema_result(df.cols, dtypes, required_columns, column_types)
  IN /\ last' = Call("validate_schema", "", "",
                     [dtypes |-> dtypes, required_columns |-> required_columns,
                      column_types |-> column_types],
                     df,
                     [status |-> r.status, out |-> [value |-> r.value],
                      seen |-> <<>>])
     /\ clock' = clock + 1
     /\ UNCHANGED <<bronze, silver, gold, held, written>>

\* ------------------------------------------------- callers and their data

\* The caller's in-memory tables. A numeric column with a missing value is
\* a float column, as pandas builds it.
T_dup == Table(<<"id", "value">>,
               << <<IntV(1), IntV(2)>>, <<IntV(2), IntV(3)>>, <<IntV(1), IntV(2)>> >>)
T_null == Table(<<"id", "value">>,
                << <<IntV(1), FltV(2)>>, <<IntV(2), Null>>, <<IntV(3), FltV(3)>> >>)
T_str == Table(<<"id", "name">>,
               << <<IntV(1), StrV("x")>>, <<IntV(2), StrV("")>>, <<IntV(2), Null>> >>)
T_digits == Table(<<"name", "value">>,
                  << <<StrV("1"), IntV(1)>>, <<StrV("2"), IntV(1)>> >>)
T_raw == Table(<<" Unit-Price", "Quantity">>,
               << <<IntV(3), IntV(2)>>, <<IntV(3), IntV(2)>> >>)
T_sales == Table(<<"id", "quantity", "unit_price">>,
                 << <<IntV(1), IntV(2), IntV(3)>>, <<IntV(2), IntV(1), IntV(4)>> >>)
T_meta == Table(<<"id", "_source_system">>,
                << <<IntV(1), StrV("pos")>>, <<IntV(2), StrV("pos")>> >>)
T_stamp == Table(<<"_ingestion_timestamp", "id">>,
                 << <<StrV("x"), IntV(1)>> >>)
T_upper == Table(<<"_Source_System", "id">>,
                 << <<StrV("x"), IntV(1)>> >>)
T_groups == Table(<<"name", "value">>,
                  << <<StrV("b"), IntV(3)>>, <<StrV("a"), IntV(1)>>,
                     <<Null, IntV(4)>>, <<StrV("a"), IntV(2)>> >>)
T_empty == Table(<<"id", "value">>, <<>>)
T_onlymeta == Table(<<"_source_system">>, << <<StrV("a")>>, <<StrV("a")>> >>)
T_stamped == Table(<<"id", "_silver_timestamp">>,
                   << <<IntV(1), StrV("x")>>, <<IntV(1), StrV("y")>> >>)

T_names == Table(<<"Column Name", "Another-Column", "\tKey - ">>,
                 << <<IntV(1), IntV(2), Null>>, <<IntV(1), IntV(2), StrV("x")>> >>)

BaseTables == {T_dup, T_null, T_str, T_digits, T_raw, T_sales, T_meta,
               T_stamp, T_upper, T_groups, T_empty, T_onlymeta, T_stamped,
               T_names}

\* Tables an earlier run of the layers returned (stamped at clock 0).
BronzeOutputs == {ingest_dataframe_result(T, "crm", 0) : T \in BaseTables}
SilverOutputs ==
  {transform_result(T, None, FALSE, FALSE, None, 0).out : T \in BronzeOutputs}

GoldOutputs == {create_fact_result(T, <<"id">>, <<"value">>, 0) : T \in {T_dup, T_null}}

TableNames == {"t", "u"}
SourceSystems == {None, Given("crm")}
SourcePaths == {"sales.csv", "people.csv", "missing.csv"}

TransformationLists ==
  {None, Given(<<>>), Given(<<"clean_column_names">>),
   Given(<<"clean_column_names", "calculate_total">>),
   Given(<<"calculate_total", "clean_column_names">>),
   Given(<<"double_values">>), Given(<<"double_values", "calculate_total">>)}
NullColumnLists ==
  {None, Given(<<>>), Given(<<"value">>), Given(<<"id">>), Given(<<"absent">>)}

GroupByLists == {<<"id">>, <<"name">>, <<"id", "value">>, <<"_silver_timestamp">>, <<>>}
Agg(col, fns, aslist) == [col |-> col, fns |-> fns, aslist |-> aslist]
AggregationDicts ==
  {<<Agg("value", <<"sum">>, FALSE)>>,
   <<Agg("value", <<"sum">>, TRUE)>>,
   <<Agg("value", <<"sum", "count">>, TRUE)>>,
   <<Agg("quantity", <<"sum">>, FALSE), Agg("unit_price", <<"count">>, FALSE)>>,
   <<Agg("quantity", <<"sum">>, FALSE), Agg("unit_price", <<"sum", "count">>, TRUE)>>,
   <<Agg("_source_system", <<"count">>, TRUE)>>,
   <<Agg("_silver_timestamp", <<"count">>, FALSE)>>,
   <<Agg("value", <<"median">>, FALSE)>>}

KeyColumns == {"id", "name", "_silver_timestamp", "absent"}
AttributeLists == {<<"value">>, <<"id", "value">>, <<"name", "_silver_timestamp">>,
                   <<"value", "value">>, <<"absent">>, <<"value", "_gold_timestamp">>}
DimensionKeyLists == {<<"id">>, <<"_silver_timestamp">>, <<"id", "absent">>}
MeasureLists == {<<"value">>, <<"value", "_silver_timestamp">>, <<"id", "quantity">>,
                 <<"value", "_gold_timestamp">>}

OnLists == {<<"id">>, <<"id", "value">>, <<"_silver_timestamp">>, <<"absent">>}
Hows == {"inner", "left"}

Metric(name, fn) == [name |-> name, fn |-> fn]
MetricDicts ==
  {<<Metric("revenue", "revenue")>>,
   <<Metric("revenue", "revenue"), Metric("twice", "double_revenue")>>,
   <<Metric("twice", "double_revenue"), Metric("revenue", "revenue")>>,
   <<Metric("width", "n_columns")>>,
   <<Metric("width", "n_columns"), Metric("wider", "n_columns")>>,
   <<Metric("id", "n_columns")>>}

\* The dtypes of the columns of a table (label -> dtype): an integer
\* dtype when every cell is an integer, a float dtype when every cell is a
\* number or missing, object otherwise; the numeric columns of the set
\* narrow have the 32-bit dtype, the others the 64-bit one.
DTypesOf(T, narrow) ==
  [c \in ColSet(T) |->
     IF NRows(T) > 0 /\ IsIntCol(T, c)
     THEN IF c \in narrow THEN "int32" ELSE "int64"
     ELSE IF NRows(T) > 0 /\ IsNumericCol(T, c)
     THEN IF c \in narrow THEN "float32" ELSE "float64"
     ELSE "object"]

RequiredLists == {<<>>, <<"id">>, <<"id", "absent">>}
TypeOf(col, type) == [col |-> col, type |-> type]
ColumnTypeDicts ==
  {None, Given(<<>>), Given(<<TypeOf("id", "int64")>>),
   Given(<<TypeOf("id", "float64")>>), Given(<<TypeOf("id", "int32")>>),
   Given(<<TypeOf("id", "object")>>), Given(<<TypeOf("name", "int64")>>),
   Given(<<TypeOf("value", "float32")>>), Given(<<TypeOf("absent", "int64")>>),
   Given(<<TypeOf("id", "int64"), TypeOf("name", "object")>>)}

Layers == {"bronze", "silver", "gold"}
FileStems == TableNames \cup {"dim_" \o n : n \in TableNames}
               \cup {"fact_" \o n : n \in TableNames}

NoCall == [op |-> "none", layer |-> "", file |-> "", args |-> <<>>, df |-> NoTable,
           status |-> "ok", out |-> NoTable, seen |-> <<>>,
           df_after |-> NoTable, listing |-> <<>>,
           before |-> [bronze |-> NoFiles, silver |-> NoFiles, gold |-> NoFiles]]

\* ------------------------------------------- one call on a caller's table

\* The stores are empty directories (the constructors made them), and the
\* caller holds one table: its own, or one a layer returned earlier.
Init ==
  /\ bronze = NoFiles
  /\ silver = NoFiles
  /\ gold = NoFiles
  /\ clock = 1
  /\ held \in BaseTables \cup BronzeOutputs \cup SilverOutputs \cup GoldOutputs
  /\ last = NoCall
  /\ written = [l \in Layers |-> NoFiles]

First == clock = 1

CallIngestData ==
  First /\ \E p \in SourcePaths, s \in SourceSystems : ingest_data(p, "t", s)
CallIngestDataframe ==
  First /\ \E s \in SourceSystems : ingest_dataframe(held, "t", s)
CallTransform ==
  First /\ \E fns \in TransformationLists, dd \in BOOLEAN, dn \in BOOLEAN,
              nc \in NullColumnLists :
             transform(held, "t", fns, dd, dn, nc)
CallAggregate ==
  First /\ \E g \in GroupByLists, a \in AggregationDicts : aggregate(held, "t", g, a)
CallCreateDimension ==
  First /\ \E k \in KeyColumns, a \in AttributeLists : create_dimension(held, "t", k, a)
CallCreateFact ==
  First /\ \E k \in DimensionKeyLists, m \in MeasureLists : create_fact(held, "t", k, m)
CallJoinTables ==
  First /\ \E r \in {held, T_sales} \cup {T \in SilverOutputs : HasCol(T, "value")},
              on \in OnLists, how \in Hows :
             join_tables(held, r, "t", on, how)
CallCalculateMetrics ==
  First /\ \E m \in MetricDicts : calculate_metrics(held, "t", m)
CallReadTable ==
  \E l \in Layers, n \in {"t", "dim_t", "fact_t", "u"} : read_table(l, n)
CallListTables ==
  \E l \in Layers : list_tables(l)
CallCleanColumnNames ==
  First /\ clean_column_names_call(held)
CallValidateSchema ==
  First /\
  \E narrow \in SUBSET (ColSet(held) \cap {"id", "value"}),
     req \in RequiredLists, types \in ColumnTypeDicts :
    validate_schema(held, DTypesOf(held, narrow), req, types)

Next ==
  \/ CallIngestData
  \/ CallIngestDataframe
  \/ CallTransform
  \/ CallAggregate
  \/ CallCreateDimension
  \/ CallCreateFact
  \/ CallJoinTables
  \/ CallCalculateMetrics
  \/ CallReadTable
  \/ CallListTables
  \/ CallValidateSchema
  \/ CallCleanColumnNames

Spec == Init /\ [][Next]_vars

\* ------------------------------------------- a pipeline of several calls

\* The caller of the example pipeline: it feeds the table it holds (its own
\* at first, then what the last call returned or read) to the next call.
PipeInit ==
  /\ bronze = NoFiles
  /\ silver = NoFiles
  /\ gold = NoFiles
  /\ clock = 1
  /\ held \in {T_dup, T_sales, T_str, T_digits}
  /\ last = NoCall
  /\ written = [l \in Layers |-> NoFiles]

More == clock <= MaxCalls

PipeIngestData ==
  More /\ \E p \in {"people.csv", "missing.csv"} : ingest_data(p, "t", None)
PipeIngestDataframe ==
  More /\ \E n \in TableNames : ingest_dataframe(held, n, None)
PipeTransform ==
  More /\ \E n \in TableNames, fns \in {None, Given(<<"calculate_total">>)} :
            transform(held, n, fns, TRUE, FALSE, None)
PipeAggregate ==
  More /\ aggregate(held, "t", <<"id">>, <<Agg("value", <<"sum">>, FALSE)>>)
PipeCreateDimension ==
  More /\ create_dimension(held, "t", "id", <<"value">>)
PipeCreateFact ==
  More /\ create_fact(held, "t", <<"id">>, <<"value">>)
PipeJoinTables ==
  More /\ join_tables(held, T_sales, "t", <<"id">>, "inner")
PipeCalculateMetrics ==
  More /\ calculate_metrics(held, "t", <<Metric("revenue", "revenue")>>)
PipeReadTable ==
  \E l \in Layers, n \in {"t", "u", "dim_t", "fact_t"} : read_table(l, n)
PipeListTables ==
  \E l \in Layers : list_tables(l)

PipeNext ==
  \/ PipeIngestData
  \/ PipeIngestDataframe
  \/ PipeTransform
  \/ PipeAggregate
  \/ PipeCreateDimension
  \/ PipeCreateFact
  \/ PipeJoinTables
  \/ PipeCalculateMetrics
  \/ PipeReadTable
  \/ PipeListTables

PipeSpec == PipeInit /\ [][PipeNext]_vars

\* ================================================================ claims

WriteOps == {"ingest_data", "ingest_dataframe", "transform", "aggregate",
             "create_dimension", "create_fact", "join_tables", "calculate_metrics"}
Returned(op) == last.op = op /\ last.status = "ok"

\* ----------------------------------------------------------------- C1
\* The table a Bronze ingest read or received.
IngestInput ==
  IF last.op = "ingest_dataframe" THEN last.df
  ELSE read_csv(SourceFiles[last.args.source_path])

\* C1: a Bronze ingest (ingest_data, ingest_dataframe) of any table T
\* returns and persists T with exactly two columns appended after T's own,
\* _ingestion_timestamp and _source_system: T's columns keep their order
\* and values, the row count is unchanged and every row's _source_system is
\* the caller's source system ("unknown" when omitted), also when T already
\* has a column with one of the two names.
C1_IngestAppendsTwoColumns ==
  (Returned("ingest_data") \/ Returned("ingest_dataframe")) =>
    LET T == IngestInput
        w == Len(T.cols)
        out == last.out
    IN /\ out.cols = T.cols \o <<"_ingestion_timestamp", "_source_system">>
       /\ NRows(out) = NRows(T)
       /\ \A r \in 1..NRows(T) :
            /\ SubSeq(out.rows[r], 1, w) = T.rows[r]
            /\ out.rows[r][w + 2] =
                 StrV(ArgOr(last.args.source_system, "unknown"))
       /\ last.file \in DOMAIN bronze
       /\ bronze[last.file] = to_csv(out)

SilverLabels == {"_silver_timestamp", "_silver_timestamp_x", "_silver_timestamp_y"}

\* C3: join_tables, calculate_metrics and create_dimension called with a
\* Silver output (a table that has _silver_timestamp) return and persist a
\* table without _silver_timestamp and without a suffixed copy of it, and
\* no metric function receives a table with that column.
C3_GoldEntryStripsSilver ==
  (/\ last.op \in {"join_tables", "calculate_metrics", "create_dimension"}
   /\ last.status = "ok"
   /\ HasCol(last.df, "_silver_timestamp")) =>
    /\ ColSet(last.out) \cap SilverLabels = {}
    /\ Range(gold[last.file].header) \cap SilverLabels = {}
    /\ \A i \in 1..Len(last.seen) : ~HasCol(last.seen[i], "_silver_timestamp")

\* ----------------------------------------------------------------- C4
\* C4: every aggregate that returns and every create_fact, whatever the
\* group_by, aggregations, dimension_keys and measures (also lists naming
\* _silver_timestamp), returns and persists a table without the column
\* _silver_timestamp and with the column _gold_timestamp.
C4_NoSilverLabelInAggregateAndFact ==
  (Returned("aggregate") \/ Returned("create_fact")) =>
    /\ ~HasCol(last.out, "_silver_timestamp")
    /\ HasCol(last.out, "_gold_timestamp")
    /\ "_silver_timestamp" \notin Range(gold[last.file].header)
    /\ "_gold_timestamp" \in Range(gold[last.file].header)

\* create_fact of a Silver output whose dimension keys name
\* _silver_timestamp itself.
C4_Witness ==
  /\ Returned("create_fact")
  /\ HasCol(last.df, "_silver_timestamp")
  /\ "_silver_timestamp" \in Range(last.args.dimension_keys)
  /\ NRows(last.out) > 0

\* ----------------------------------------------------------------- C5
BronzeLabels == {"_ingestion_timestamp", "_source_system"}

\* The table the i-th transformation of the last transform returned, as far
\* as its columns go (after the last one only _silver_timestamp is added).
AfterStep(i) == IF i < Len(last.seen) THEN last.seen[i + 1] ELSE last.out

\* Some transformation of the last transform returned a Bronze label that
\* the table it received did not have.
CreatedBronzeLabel ==
  \E i \in 1..Len(last.seen) :
    (ColSet(AfterStep(i)) \ ColSet(last.seen[i])) \cap BronzeLabels # {}

\* Every transformation of the last transform kept the labels it received.
KeptLabels ==
  \A i \in 1..Len(last.seen) : ColSet(last.seen[i]) \subseteq ColSet(AfterStep(i))

\* C5: a transform that returns has removed _ingestion_timestamp and
\* _source_system whether the input has both, one or none of them: unless a
\* transformation itself created such a column, the returned and persisted
\* table has neither and has _silver_timestamp; the other columns of the
\* input reach the first transformation (the output, when there is none)
\* in their order and with their values, and are in the output when the
\* transformations keep the labels they receive.
C5_TransformStripsBronze ==
  Returned("transform") =>
    LET T == last.df
        out == last.out
        keptIdx == SelectSeq([j \in 1..Len(T.cols) |-> j],
                             LAMBDA j : T.cols[j] \notin BronzeLabels)
        kept == [k \in 1..Len(keptIdx) |-> T.cols[keptIdx[k]]]
        keptRow(r) == [k \in 1..Len(keptIdx) |-> T.rows[r][keptIdx[k]]]
    IN /\ ~CreatedBronzeLabel =>
            /\ ColSet(out) \cap BronzeLabels = {}
            /\ Range(silver[last.file].header) \cap BronzeLabels = {}
       /\ HasCol(out, "_silver_timestamp")
       /\ "_silver_timestamp" \in Range(silver[last.file].header)
       /\ IF last.seen # <<>>
          THEN /\ last.seen[1].cols = kept
               /\ last.seen[1].rows = [r \in 1..NRows(T) |-> keptRow(r)]
          ELSE out.cols = IF "_silver_timestamp" \in Range(kept) THEN kept
                          ELSE Append(kept, "_silver_timestamp")
       /\ KeptLabels => Range(kept) \subseteq ColSet(out)

\* A transform of a table that has one of the two Bronze labels only.
C5_Witness ==
  /\ Returned("transform")
  /\ HasCol(last.df, "_source_system")
  /\ ~HasCol(last.df, "_ingestion_timestamp")
  /\ Len(last.df.cols) > 1
  /\ ~CreatedBronzeLabel

\* ----------------------------------------------------------------- C6
\* The table of the last transform after the strip and the transformations.
PostTransformation ==
  IF last.seen = <<>> THEN DropColumns(last.df, BronzeLabels)
  ELSE ApplyTransform(last.args.transformations.val[Len(last.seen)],
                      last.seen[Len(last.seen)]).df

MetadataLabels == BronzeLabels \cup {"_silver_timestamp"}

\* The output of the last transform has one row per distinct row of the
\* post-transformation table: the first occurrences, in their order.
FirstOccurrencesKept ==
  LET pre == PostTransformation
      firsts == SelectSeq([r \in 1..NRows(pre) |-> r],
                          LAMBDA r : \A q \in 1..(r - 1) : pre.rows[q] # pre.rows[r])
  IN /\ NRows(last.out) = Cardinality(Range(pre.rows))
     /\ last.out = Silver_add_metadata(
                     Table(pre.cols, [k \in 1..Len(firsts) |-> pre.rows[firsts[k]]]),
                     clock - 1)

\* transform again, without transformations, on the output of the last
\* transform: the row count stays.
RerunKeepsRowCount ==
  NRows(transform_result(last.out, None, TRUE, FALSE, None, clock).out)
    = NRows(last.out)

Deduplicating ==
  Returned("transform") /\ last.args.deduplicate /\ ~last.args.drop_nulls

\* C6 as claimed: with deduplicate=true and dropNulls=false the output row
\* count is the number of distinct rows of the post-transformation table,
\* first occurrences kept in input order, and a second transform of the
\* output (no transformations) leaves the row count unchanged.
C6_DeduplicationAsClaimed ==
  Deduplicating => FirstOccurrencesKept /\ RerunKeepsRowCount

\* C6 amended: the first part when the post-transformation table has at
\* least one column, the second when, besides, it has no column named
\* _silver_timestamp, _ingestion_timestamp or _source_system.
C6_Deduplication ==
  (Deduplicating /\ PostTransformation.cols # <<>>) =>
    /\ FirstOccurrencesKept
    /\ ColSet(PostTransformation) \cap MetadataLabels = {} => RerunKeepsRowCount

\* A deduplicating transform that removed a repeated row which did not
\* directly follow its first occurrence.
C6_Witness ==
  /\ Deduplicating
  /\ ColSet(PostTransformation) \cap MetadataLabels = {}
  /\ NRows(last.out) < NRows(PostTransformation)
  /\ PostTransformation.rows[1] # PostTransformation.rows[2]

\* ----------------------------------------------------------------- C7
\* The transformation list of the last transform (none when omitted).
Transformations ==
  IF Truthy(last.args.transformations) THEN last.args.transformations.val ELSE <<>>

\* The deduplication step and the null-dropping step of the last transform,
\* each as the identity when its flag is off.
DedupStep(T) == IF last.args.deduplicate THEN drop_duplicates(T) ELSE T
NullStep(T) ==
  IF ~last.args.drop_nulls THEN T
  ELSE IF Truthy(last.args.null_columns)
  THEN dropna(T, Range(last.args.null_columns.val))
  ELSE dropna(T, ColSet(T))

\* C7: step order of transform. The transformation functions are called in
\* list order, the first with the input stripped of the Bronze metadata,
\* each later one with exactly the table the previous one returned; the
\* deduplication runs on the table the last one returned, the null
\* dropping on the deduplicated table, _silver_timestamp is set after both
\* (no function receives that column unless the input had it), and the
\* file holds the table so obtained, which is the one returned.
C7_StepOrder ==
  Returned("transform") =>
    LET fns == Transformations
    IN /\ Len(last.seen) = Len(fns)
       /\ fns # <<>> => last.seen[1] = DropColumns(last.df, BronzeLabels)
       /\ \A i \in 1..(Len(fns) - 1) :
            last.seen[i + 1] = ApplyTransform(fns[i], last.seen[i]).df
       /\ last.out = Silver_add_metadata(NullStep(DedupStep(PostTransformation)),
                                         clock - 1)
       /\ ~HasCol(last.df, "_silver_timestamp") =>
            \A i \in 1..Len(last.seen) : ~HasCol(last.seen[i], "_silver_timestamp")
       /\ silver[last.file] = to_csv(last.out)

\* A transform with two transformations, the second of which received a
\* table the first had changed, and whose deduplication removed a row.
C7_Witness ==
  /\ Returned("transform")
  /\ Len(last.seen) = 2
  /\ last.seen[2] # last.seen[1]
  /\ HasCol(last.out, "total_amount")
  /\ NRows(last.out) < NRows(last.df)

\* ----------------------------------------------------------------- C8
\* The table of the last transform as it enters the null-dropping step.
BeforeNullStep == DedupStep(PostTransformation)

\* C8: null dropping. With drop_nulls, a transform given null_columns keeps
\* exactly the rows without a null in any of the null_columns (the empty
\* list included, which then removes no row), and one not given
\* null_columns keeps exactly the rows without a null in any column;
\* without drop_nulls no row is removed for nulls.
C8_NullDropping ==
  Returned("transform") =>
    LET pre == BeforeNullStep
        nc == last.args.null_columns
        checked == IF nc.given THEN Range(nc.val) ELSE ColSet(pre)
        keep(row) == \A j \in 1..Len(pre.cols) :
                       pre.cols[j] \in checked => ~IsNull(row[j])
        rows == IF last.args.drop_nulls THEN SelectSeq(pre.rows, keep) ELSE pre.rows
    IN last.out = Silver_add_metadata(Table(pre.cols, rows), clock - 1)

\* ----------------------------------------------------------------- C9
\* The file of the last read_table was written by an earlier call of the
\* layer that returned.
EverWritten == last.file \in DOMAIN written[last.layer]

\* The table returned by the most recent call that wrote that file.
LastWritten == written[last.layer][last.file].df

CsvCell(w, r) ==
  \/ IsNull(w) /\ IsNull(r)
  \/ IsNum(w) /\ IsNum(r) /\ NumOf(w) = NumOf(r)
  \/ IsNum(w) /\ IsStr(r) /\ r.str \in {ToString(NumOf(w)), ToString(NumOf(w)) \o ".0"}
  \/ IsStr(w) /\ r = w
  \/ IsStr(w) /\ IsNull(r)
       /\ w.str \in {"", "NA", "NaN", "nan", "null", "NULL", "None", "N/A", "n/a"}
  \/ IsStr(w) /\ IsNum(r)
       /\ w.str \in {ToString(NumOf(r)), ToString(NumOf(r)) \o ".0"}

\* A table that the CSV file holds as it is: every column is all integers,
\* all floats, or all strings that spell neither a missing value nor a
\* number, and no label is repeated.
CsvPlain(T) ==
  /\ \A i, j \in 1..Len(T.cols) : T.cols[i] = T.cols[j] => i = j
  /\ \A j \in 1..Len(T.cols) :
       LET col == {T.rows[r][j] : r \in 1..NRows(T)}
       IN \/ \A v \in col : IsInt(v)
          \/ \A v \in col : IsFlt(v)
          \/ \A v \in col : /\ IsStr(v)
                             /\ ~CsvCell(v, Null)
                             /\ \A n \in 0..MaxNum : ~CsvCell(v, IntV(n))

Grouped == DropColumns(last.df, {"_silver_timestamp"})
GroupKey(r) ==
  [k \in 1..Len(last.args.group_by) |-> Column(Grouped, last.args.group_by[k])[r]]
GroupRows(key) ==
  SelectSeq([r \in 1..NRows(Grouped) |-> r], LAMBDA r : GroupKey(r) = key)

\* The (column, aggregation) pairs asked of the last aggregate, in order.
Requested == AggPairs(last.args.aggregations)

\* The value of one aggregation over the cells of a column in given rows:
\* the number of cells present for count, their total for sum.
Aggregation(fn, c, rows) ==
  LET cells == SelectSeq([k \in 1..Len(rows) |-> Column(Grouped, c)[rows[k]]],
                         LAMBDA v : ~IsNull(v))
  IN IF fn = "count" THEN Len(cells) ELSE SumNums(cells)

\* C11: an aggregate that returns has exactly one output row per distinct
\* combination of group_by values occurring in the input rows (a null
\* value included), each measure cell is the requested aggregation over
\* exactly the input rows of that group, and for a single-column sum the
\* output sums add up to the total of the input column.
C11_AggregateGroups ==
  Returned("aggregate") =>
    LET g == last.args.group_by
        out == last.out
        keys == {GroupKey(r) : r \in 1..NRows(Grouped)}
        outKey(q) == SubSeq(out.rows[q], 1, Len(g))
    IN /\ NRows(out) = Cardinality(keys)
       /\ {outKey(q) : q \in 1..NRows(out)} = keys
       /\ \A q \in 1..NRows(out) : \A k \in 1..Len(Requested) :
            NumOf(out.rows[q][Len(g) + k])
              = Aggregation(Requested[k].fn, Requested[k].col, GroupRows(outKey(q)))
       /\ (Len(Requested) = 1 /\ Requested[1].fn = "sum") =>
            SumNums([q \in 1..NRows(out) |-> out.rows[q][Len(g) + 1]])
              = Aggregation("sum", Requested[1].col,
                            [r \in 1..NRows(Grouped) |-> r])

\* ---------------------------------------------------------------- C12
\* Some aggregation of the last aggregate was given as a list.
AnyList ==
  \E k \in 1..Len(last.args.aggregations) : last.args.aggregations[k].aslist

\* A label without its leading underscore (the labels of the inputs that
\* begin with one).
Bare(c) ==
  IF c = "_source_system" THEN "source_system"
  ELSE IF c = "_ingestion_timestamp" THEN "ingestion_timestamp"
  ELSE IF c = "_silver_timestamp" THEN "silver_timestamp"
  ELSE c

\* The columns of the last aggregate's output and file when the aggregated
\* columns have the given names.
AggregateColumnsAre(names) ==
  LET cols == last.args.group_by \o names \o <<"_gold_timestamp">>
  IN last.out.cols = cols /\ gold[last.file].header = cols

\* C12 as claimed: the group_by columns keep their names and each
\* aggregated column is named <column>_<aggregation>, except that it is
\* named <column> when exactly one aggregation is requested overall;
\* whether an aggregation is given as a name or as a list makes no
\* difference.
C12_AggregateNamesAsClaimed ==
  Returned("aggregate") =>
    AggregateColumnsAre([k \in 1..Len(Requested) |->
                           IF Len(Requested) = 1 THEN Requested[k].col
                           ELSE Requested[k].col \o "_" \o Requested[k].fn])

\* C12 amended: the group_by columns keep their names; when every
\* aggregation is given as a single name each aggregated column keeps the
\* name of its column, however many columns are aggregated; when any
\* aggregation is given as a list (of one name or several) every
\* aggregated column is named <column>_<aggregation>, without the leading
\* underscore when the column name begins with one.
C12_AggregateNames ==
  Returned("aggregate") =>
    AggregateColumnsAre([k \in 1..Len(Requested) |->
                           IF AnyList
                           THEN Bare(Requested[k].col) \o "_" \o Requested[k].fn
                           ELSE Requested[k].col])

\* An aggregate given one aggregation as a name and two as a list.
C12_Witness ==
  /\ Returned("aggregate")
  /\ Len(last.args.aggregations) = 2
  /\ ~last.args.aggregations[1].aslist
  /\ last.args.aggregations[2].aslist
  /\ Len(Requested) = 3
  /\ NRows(last.out) > 1

\* ---------------------------------------------------------------- C13
\* The labels the last create_dimension projects: key_column, then the
\* attributes other than key_column, those that are columns of the input.
DimLabels ==
  SelectSeq(<<last.args.key_column>> \o
              SelectSeq(last.args.attributes, LAMBDA c : c # last.args.key_column),
            LAMBDA c : c \in ColSet(last.df))

\* The projection of one input row, and the input rows whose projection no
\* earlier row has.
DimRow(r) == [k \in 1..Len(DimLabels) |-> Column(last.df, DimLabels[k])[r]]
DimFirsts ==
  SelectSeq([r \in 1..NRows(last.df) |-> r],
            LAMBDA r : \A q \in 1..(r - 1) : DimRow(q) # DimRow(r))

\* The timestamp the last call set.
Stamp == isoformat(clock - 1)

\* The last create_dimension wrote the table it returned to dim_<name>.
DimPersisted ==
  /\ last.file = "dim_" \o last.args.table_name
  /\ last.file \in DOMAIN gold
  /\ gold[last.file] = to_csv(last.out)

\* C13 as claimed: the output columns of create_dimension are the projected
\* labels and then _gold_timestamp, its rows the distinct rows of the
\* projection, first occurrence kept, each with the timestamp, so that the
\* row count is the number of distinct projected rows; the table is
\* persisted as dim_<table_name>.
C13_DimensionAsClaimed ==
  Returned("create_dimension") =>
    /\ last.out.cols = DimLabels \o <<"_gold_timestamp">>
    /\ last.out.rows = [k \in 1..Len(DimFirsts) |-> DimRow(DimFirsts[k]) \o <<Stamp>>]
    /\ NRows(last.out) = Cardinality({DimRow(r) : r \in 1..NRows(last.df)})
    /\ DimPersisted

\* C13 amended: as claimed when at least one projected label is a column of
\* the input and none is _gold_timestamp; when _gold_timestamp is among
\* them the column stays where the projection has it and takes the new
\* timestamp in the first occurrences of the distinct projected rows; when
\* no projected label is a column of the input the output has the column
\* _gold_timestamp only and one row per input row.
C13_Dimension ==
  Returned("create_dimension") =>
    /\ DimPersisted
    /\ IF DimLabels = <<>>
       THEN /\ last.out.cols = <<"_gold_timestamp">>
            /\ last.out.rows = [r \in 1..NRows(last.df) |-> <<Stamp>>]
       ELSE /\ NRows(last.out) = Cardinality({DimRow(r) : r \in 1..NRows(last.df)})
            /\ IF "_gold_timestamp" \notin Range(DimLabels)
               THEN /\ last.out.cols = DimLabels \o <<"_gold_timestamp">>
                    /\ last.out.rows =
                         [k \in 1..Len(DimFirsts) |-> DimRow(DimFirsts[k]) \o <<Stamp>>]
               ELSE /\ last.out.cols = DimLabels
                    /\ last.out.rows =
                         [k \in 1..Len(DimFirsts) |->
                            [j \in 1..Len(DimLabels) |->
                               IF DimLabels[j] = "_gold_timestamp" THEN Stamp
                               ELSE DimRow(DimFirsts[k])[j]]]

\* A create_dimension whose key column is absent from the input, with an
\* attribute that is present, that removed a repeated row.
C13_Witness ==
  /\ Returned("create_dimension")
  /\ ~HasCol(last.df, last.args.key_column)
  /\ DimLabels # <<>>
  /\ "_gold_timestamp" \notin Range(DimLabels)
  /\ 1 < NRows(last.out)
  /\ NRows(last.out) < NRows(last.df)

\* ---------------------------------------------------------------- C14
\* C14: in the table a create_dimension returns for an input that has the
\* key column, no two rows have the same value of the key column, also
\* when two input rows share a key value and differ in an attribute.
C14_DimensionKeyUnique ==
  (Returned("create_dimension") /\ HasCol(last.df, last.args.key_column)) =>
    \A q, r \in 1..NRows(last.out) :
      Column(last.out, last.args.key_column)[q]
        = Column(last.out, last.args.key_column)[r] => q = r

\* ---------------------------------------------------------------- C15
\* dimension_keys followed by measures of the last create_fact, those that
\* are columns of the input; and those that are columns of the input other
\* than _silver_timestamp.
FactLabelsOfInput ==
  SelectSeq(last.args.dimension_keys \o last.args.measures,
            LAMBDA c : c \in ColSet(last.df))
FactLabels == SelectSeq(FactLabelsOfInput, LAMBDA c : c # "_silver_timestamp")

\* The last create_fact wrote the table it returned to fact_<name>.
FactPersisted ==
  /\ last.file = "fact_" \o last.args.table_name
  /\ last.file \in DOMAIN gold
  /\ gold[last.file] = to_csv(last.out)

\* One output row per input row, in the input order, with the cells of the
\* given labels and then the timestamp.
FactRowsAre(labels) ==
  /\ last.out.cols = labels \o <<"_gold_timestamp">>
  /\ last.out.rows =
       [r \in 1..NRows(last.df) |->
          [k \in 1..Len(labels) |-> Column(last.df, labels[k])[r]] \o <<Stamp>>]

\* C15 as claimed: create_fact returns one row per input row, in order and
\* without deduplication; its columns are dimension_keys followed by
\* measures, those present in the input, then _gold_timestamp; the table
\* is persisted as fact_<table_name>.
C15_FactAsClaimed ==
  Returned("create_fact") =>
    /\ NRows(last.out) = NRows(last.df)
    /\ FactRowsAre(FactLabelsOfInput)
    /\ FactPersisted

\* C15 amended: as claimed, with _silver_timestamp dropped from the
\* projected labels like an absent name, and with _gold_timestamp, when it
\* is itself a projected label, staying at its place and taking the new
\* timestamp instead of being appended.
C15_Fact ==
  Returned("create_fact") =>
    /\ NRows(last.out) = NRows(last.df)
    /\ FactPersisted
    /\ IF "_gold_timestamp" \notin Range(FactLabels)
       THEN FactRowsAre(FactLabels)
       ELSE /\ last.out.cols = FactLabels
            /\ last.out.rows =
                 [r \in 1..NRows(last.df) |->
                    [k \in 1..Len(FactLabels) |->
                       IF FactLabels[k] = "_gold_timestamp" THEN Stamp
                       ELSE Column(last.df, FactLabels[k])[r]]]

\* A create_fact given an absent dimension key, whose output has two
\* identical rows.
C15_Witness ==
  /\ Returned("create_fact")
  /\ "absent" \in Range(last.args.dimension_keys)
  /\ NRows(last.out) = 3
  /\ last.out.rows[1] = last.out.rows[3]
  /\ Len(last.out.cols) = 3

\* ---------------------------------------------------------------- C16
\* Table B is table A with the column of the given label set to the given
\* cells: in its place when A has the label, appended otherwise; every
\* other column and the number of rows as in A.
ColumnSet(A, B, label, cells) ==
  /\ B.cols = IF label \in ColSet(A) THEN A.cols ELSE Append(A.cols, label)
  /\ NRows(B) = NRows(A)
  /\ \A r \in 1..NRows(A) : \A j \in 1..Len(B.cols) :
       B.rows[r][j] = IF B.cols[j] = label THEN cells[r] ELSE A.rows[r][j]

\* The table after the i-th metric of the last calculate_metrics: the one
\* the next metric function received, or after the last metric the
\* returned table, whose _gold_timestamp is set afterwards.
AfterMetric(i) == IF i < Len(last.seen) THEN last.seen[i + 1] ELSE last.out

\* C16: calculate_metrics evaluates the metric functions in the given
\* order, the i-th on the input table with the columns of the metrics
\* before it (no later metric's column, and no _gold_timestamp unless the
\* input has one); its result becomes the column named by the metric,
\* replacing a column of that name, all other columns and the row count
\* stay, and _gold_timestamp is set after the last metric.
C16_MetricsInOrder ==
  Returned("calculate_metrics") =>
    LET ms == last.args.metrics
        n == Len(ms)
        value(i) == ApplyMetric(ms[i].fn, last.seen[i]).col
    IN /\ Len(last.seen) = n
       /\ n > 0 => last.seen[1] = last.df
       /\ \A i \in 1..(n - 1) :
            ColumnSet(last.seen[i], last.seen[i + 1], ms[i].name, value(i))
       /\ \E final \in {IF n = 0 THEN last.df
                        ELSE SetColumn(last.seen[n], ms[n].name, value(n))} :
            /\ n > 0 => ColumnSet(last.seen[n], final, ms[n].name, value(n))
            /\ ColumnSet(final, last.out, "_gold_timestamp",
                         [r \in 1..NRows(final) |-> Stamp])
       /\ \A i \in 1..n : \A j \in i..n :
            HasCol(last.seen[i], ms[j].name) => HasCol(last.df, ms[j].name)
       /\ ~HasCol(last.df, "_gold_timestamp") =>
            \A i \in 1..n : ~HasCol(last.seen[i], "_gold_timestamp")
       /\ NRows(last.out) = NRows(last.df)
       /\ gold[last.file] = to_csv(last.out)

\* A calculate_metrics with two metrics, the second computed from the
\* column of the first.
C16_Witness ==
  /\ Returned("calculate_metrics")
  /\ Len(last.args.metrics) = 2
  /\ last.args.metrics[2].fn = "double_revenue"
  /\ ~HasCol(last.df, "revenue")
  /\ NRows(last.out) > 1

\* ---------------------------------------------------------------- C17
\* The typed columns of the last validate_schema, and whether one of them
\* is present with an observed dtype other than the expected one, a
\* numeric dtype observed against a numeric dtype expected not counting.
TypedColumns ==
  IF last.args.column_types.given THEN last.args.column_types.val ELSE <<>>
NumericTypes == {"int64", "int32", "float64", "float32"}
TypeConflict ==
  \E k \in 1..Len(TypedColumns) :
    LET e == TypedColumns[k]
    IN /\ e.col \in ColSet(last.df)
       /\ last.args.dtypes[e.col] # e.type
       /\ ~(last.args.dtypes[e.col] \in NumericTypes /\ e.type \in NumericTypes)

\* C17: validate_schema raises ValueError exactly when a required column
\* is missing or a typed column is present with another dtype, any two
\* numeric dtypes counting as the same; in every other case it returns
\* True. A typed column that is absent and not required raises nothing.
C17_ValidateSchema ==
  last.op = "validate_schema" =>
    LET missing == Range(last.args.required_columns) \ ColSet(last.df) # {}
    IN /\ last.status = "ValueError" <=> (missing \/ TypeConflict)
       /\ last.status # "ValueError" => last.status = "ok" /\ last.out.value

\* ---------------------------------------------------------------- C18
\* The labels of the inputs that are not yet clean, each with the name it
\* has when lower-cased, trimmed, and with its spaces and hyphens replaced
\* by underscores.
CleanedLabels ==
  (" Unit-Price" :> "unit_price") @@ ("Quantity" :> "quantity")
    @@ ("_Source_System" :> "_source_system")
    @@ ("Column Name" :> "column_name") @@ ("Another-Column" :> "another_column")
    @@ ("\tKey - " :> "key__")
Cleaned(c) == IF c \in DOMAIN CleanedLabels THEN CleanedLabels[c] ELSE c

\* The three store directories are as they were before the last call.
NothingWritten ==
  /\ bronze = last.before.bronze
  /\ silver = last.before.silver
  /\ gold = last.before.gold

\* C18: clean_column_names returns a table whose i-th column name is the
\* i-th input name lower-cased, trimmed of leading and trailing whitespace,
\* with every remaining space and hyphen replaced by an underscore; cells,
\* column order and row count are those of the input, the input keeps its
\* names, no file is written, and cleaning the result again changes no
\* name.
C18_CleanColumnNames ==
  last.op = "clean_column_names" =>
    /\ last.status = "ok"
    /\ last.out.cols = [i \in 1..Len(last.df.cols) |-> Cleaned(last.df.cols[i])]
    /\ last.out.rows = last.df.rows
    /\ last.df_after = last.df
    /\ NothingWritten
    /\ clean_column_names(last.out).cols = last.out.cols

\* A cleaning of the labels "Column Name" and "Another-Column".
C18_Witness ==
  /\ last.op = "clean_column_names"
  /\ last.df.cols = <<"Column Name", "Another-Column", "\tKey - ">>
  /\ last.out.cols = <<"column_name", "another_column", "key__">>
  /\ NRows(last.out) = 2

\* ---------------------------------------------------------------- C19
\* The calls that are given a table of the caller.
TableOps == {"ingest_dataframe", "transform", "aggregate", "create_dimension",
             "create_fact", "join_tables", "calculate_metrics"}

====
